---- MODULE Spec2Model ----
(***************************************************************************)
(* Model of package_control/loader.py (archive layout, Python 3 branch):   *)
(* the dependency loader archive, its staged replacement files, the cached *)
(* entry list, the swap flag and loader_lock, with the calls is_swapping,  *)
(* exists, add and remove running on several threads and the deferred      *)
(* callbacks do_swap / do_reenable running on the host's main thread.      *)
(* Each call is a sequence of steps: what runs between two lock operations *)
(* or two accesses another thread can observe is one step. Files are       *)
(* modelled by their existence and their list of zip entries, entry names  *)
(* by their characters, so that the regular expression is really matched.  *)
(***************************************************************************)
EXTENDS Integers, Sequences, FiniteSets, TLC

\* ---------------------------------------------------------------- bounds
\* total number of calls made into the module in one behaviour
MaxOps == 3
\* number of filesystem errors the environment may inject
MaxFaults == 1
\* total number of calls in a behaviour checked for liveness
MaxFairOps == 2
\* total number of calls when the main thread makes calls too
MaxMainOps == 2
\* number of remove calls in a behaviour that exercises the name pattern
MaxRegexOps == 2

\* --------------------------------------------------------------- threads
Main == "main"
Workers == {"t1", "t2"}
Threads == Workers \cup {Main}

\* ------------------------------------------------------- names and files
Digits == {"0", "1", "2", "3", "4", "5", "6", "7", "8", "9"}

Names == {<<"a">>, <<"b">>}
Priorities == {<<"0", "1">>, <<"1">>}
Codes == {""}

MetaName == <<"d", "e", "p", "e", "n", "d", "e", "n", "c", "y", "-", "m", "e", "t", "a", "d", "a", "t", "a", ".", "j", "s", "o", "n">>
MetaData == "loader_metadata_enc"

\* loader_filename = '%s-%s.py' % (priority, name)
LoaderFilename(priority, name) == priority \o <<"-">> \o name \o <<".", "p", "y">>

\* code = dedent(...) % repr(name) when no code is given
LoaderCode(name, code) == IF code = "" THEN <<"default", name>> ELSE <<"custom", code>>

\* mutant of RegexMatch: the name is put into the pattern without re.escape,
\* so that a '.' in the name matches any character
RegexMatchUnescaped(name, filename) ==
    LET L == Len(name)
        rest == SubSeq(filename, 7 + L, Len(filename))
    IN  /\ Len(filename) >= 6 + L
        /\ filename[1] \in Digits
        /\ filename[2] \in Digits
        /\ filename[3] = "-"
        /\ \A i \in 1..L : name[i] = "." \/ filename[3 + i] = name[i]
        /\ \A i \in 1..L : filename[3 + i] # "\n"
        /\ filename[4 + L] # "\n"
        /\ filename[5 + L] = "p"
        /\ filename[6 + L] = "y"
        /\ rest \in {<< >>, <<"c">>, <<"\n">>, <<"c", "\n">>}

\* re.match(u'^\\d\\d-%s.pyc?$' % re.escape(name), filename)
RegexMatch(name, filename) ==
    LET L == Len(name)
        rest == SubSeq(filename, 7 + L, Len(filename))
    IN  /\ Len(filename) >= 6 + L
        /\ filename[1] \in Digits
        /\ filename[2] \in Digits
        /\ filename[3] = "-"
        /\ SubSeq(filename, 4, 3 + L) = name
        /\ filename[4 + L] # "\n"
        /\ filename[5 + L] = "p"
        /\ filename[6 + L] = "y"
        /\ rest \in {<< >>, <<"c">>, <<"\n">>, <<"c", "\n">>}

\* a file on disk: absent, or a zip archive holding a sequence of entries
NoFile == [ex |-> FALSE, ents |-> << >>]
ZipOf(ents) == [ex |-> TRUE, ents |-> ents]
Entry(fn, data) == [fn |-> fn, data |-> data]

\* z.namelist()
Namelist(ents) == [i \in 1..Len(ents) |-> ents[i].fn]

\* non_local['loaders']: None, or the list set by __update_loaders
NoLoaders == [set |-> FALSE, names |-> << >>]
UpdateLoaders(ents) == [set |-> TRUE, names |-> Namelist(ents)]

\* mutant of CopyKept: the loop copies the matching entries too
CopyEverything(name, ents) == ents

\* the loop of remove that copies every entry not matching the regex
RECURSIVE CopyKept(_, _)
CopyKept(name, ents) ==
    IF ents = << >> THEN << >>
    ELSE IF RegexMatch(name, Head(ents).fn) THEN CopyKept(name, Tail(ents))
         ELSE <<Head(ents)>> \o CopyKept(name, Tail(ents))

AnyMatch(name, fns) == \E i \in 1..Len(fns) : RegexMatch(name, fns[i])

\* the archive as a previous run of the program leaves it
StartArchive ==
    <<Entry(MetaName, MetaData),
      Entry(LoaderFilename(<<"0", "1">>, <<"a">>), LoaderCode(<<"a">>, "")),
      Entry(LoaderFilename(<<"1", "0">>, <<"b">>), LoaderCode(<<"b">>, ""))>>

\* ----------------------------------------------------------------- state
VARIABLES
    live,           \* the file at loader_package_path
    newf,           \* the file at new_loader_package_path
    inter,          \* the file at intermediate_loader_package_path
    loaders,        \* non_local['loaders']
    swap_queued,    \* non_local['swap_queued']
    lock,           \* loader_lock: "free", or who acquired it (a thread, or do_swap)
    pc,             \* position of each thread
    loc,            \* arguments and locals of the call each thread runs
    ret,            \* what the step just taken returned to its caller, if it did
    timers,         \* callbacks handed to sublime.set_timeout, not yet run
    hostReq,        \* last request made to PackageDisabler for the loader
    opsLeft,        \* calls the callers may still make
    faultsLeft,     \* filesystem errors that may still happen
    solo,           \* the add/remove whose thread has run alone since
    orig,           \* the live archive as it was at the start
    hist            \* names whose remove returned normally; whether add was called

vars == <<live, newf, inter, loaders, swap_queued, lock, pc, loc, ret,
          timers, hostReq, opsLeft, faultsLeft, solo, orig, hist>>

Loc0 == [name |-> << >>, prio |-> << >>, code |-> "", removed |-> FALSE,
         created |-> FALSE, found |-> FALSE, queued |-> FALSE,
         exc |-> FALSE, staged |-> FALSE, rel |-> 0]
Ret0 == [t |-> "nobody", op |-> "none", name |-> << >>, val |-> "none", rel |-> 0]
NoSolo == [t |-> "nobody", op |-> "none", name |-> << >>, prio |-> << >>,
           done |-> FALSE, reps |-> 0]

\* who holds loader_lock between do_swap's acquire and do_reenable's release
SwapCycle == "do_swap"

\* the module has just been imported: nothing cached, no swap queued, the
\* lock free; the archive is absent or left by an earlier run; the callers
\* are about to make up to n calls
Start(n) ==
    /\ live \in {NoFile, ZipOf(StartArchive)}
    /\ newf = NoFile
    /\ inter = NoFile
    /\ loaders = NoLoaders
    /\ swap_queued = FALSE
    /\ lock = "free"
    /\ pc = [t \in Threads |-> "idle"]
    /\ loc = [t \in Threads |-> Loc0]
    /\ ret = Ret0
    /\ timers = [do_swap |-> 0, do_reenable |-> 0]
    /\ hostReq = "none"
    /\ opsLeft = n
    /\ faultsLeft = MaxFaults
    /\ solo = NoSolo
    /\ orig = live
    /\ hist = [removed |-> {}, added |-> FALSE]

Files == <<live, newf, inter>>
Shared == <<loaders, swap_queued>>
Env == <<timers, hostReq, opsLeft, faultsLeft>>
Ghost == <<orig, hist>>

Init == Start(MaxOps)

InitFair == Start(MaxFairOps)

\* a step of thread t leaves solo alone only when t is the solo thread
Alone(t) == IF solo.t = t THEN solo ELSE NoSolo

\* the call of thread t returns val (or raises, val = "exc") after having
\* released the lock rel times
Return(t, op, val, rel) ==
    /\ pc' = [pc EXCEPT ![t] = "idle"]
    /\ loc' = [loc EXCEPT ![t] = Loc0]
    /\ ret' = [t |-> t, op |-> op, name |-> loc[t].name, val |-> val, rel |-> rel]
    /\ hist' = IF op = "remove" /\ val = "ok"
                THEN [hist EXCEPT !.removed = @ \cup {loc[t].name}] ELSE hist
    /\ UNCHANGED orig

\* thread t moves on to label with its locals unchanged
Goto(t, label) ==
    /\ pc' = [pc EXCEPT ![t] = label]
    /\ ret' = Ret0
    /\ UNCHANGED <<loc, Ghost>>

\* thread t moves on to label with the locals l
GotoWith(t, label, l) ==
    /\ pc' = [pc EXCEPT ![t] = label]
    /\ loc' = [loc EXCEPT ![t] = l]
    /\ ret' = Ret0
    /\ UNCHANGED Ghost


\* -------------------------------------------------------------- callers
\* thread t calls an operation with the arguments in l
Call(t, label, l) ==
    /\ pc[t] = "idle" /\ opsLeft > 0
    /\ opsLeft' = opsLeft - 1
    /\ pc' = [pc EXCEPT ![t] = label]
    /\ loc' = [loc EXCEPT ![t] = l]
    /\ ret' = Ret0
    /\ solo' = Alone(t)
    /\ hist' = [hist EXCEPT !.added = @ \/ (label = "add_acq")]
    /\ UNCHANGED <<Files, Shared, lock, timers, hostReq, faultsLeft, orig>>

CallIsSwapping(t) == Call(t, "is_acq", Loc0)

CallExists(t, n) == Call(t, "ex_chk", [Loc0 EXCEPT !.name = n])

CallAdd(t, p, n, c) == Call(t, "add_acq", [Loc0 EXCEPT !.name = n, !.prio = p, !.code = c])

CallRemove(t, n) == Call(t, "rm_chk", [Loc0 EXCEPT !.name = n])

\* ---------------------------------------------------------- is_swapping
\* loader_lock.acquire()
IsSwappingAcquire(t) ==
    /\ pc[t] = "is_acq" /\ lock = "free"
    /\ lock' = t
    /\ Goto(t, "is_read")
    /\ solo' = Alone(t)
    /\ UNCHANGED <<Files, Shared, Env>>

\* queued = non_local['swap_queued']
IsSwappingRead(t) ==
    /\ pc[t] = "is_read"
    /\ GotoWith(t, "is_rel", [loc[t] EXCEPT !.queued = swap_queued])
    /\ solo' = Alone(t)
    /\ UNCHANGED <<Files, Shared, lock, Env>>

\* loader_lock.release(); return queued
IsSwappingRelease(t) ==
    /\ pc[t] = "is_rel"
    /\ lock' = "free"
    /\ Return(t, "is_swapping", IF loc[t].queued THEN "true" ELSE "false", loc[t].rel + 1)
    /\ solo' = Alone(t)
    /\ UNCHANGED <<Files, Shared, Env>>

\* --------------------------------------------------------------- exists
\* if not path.exists(loader_package_path): return False
ExistsCheck(t) ==
    /\ pc[t] = "ex_chk"
    /\ IF live.ex THEN Goto(t, "ex_acq") ELSE Return(t, "exists", "false", 0)
    /\ solo' = Alone(t)
    /\ UNCHANGED <<Files, Shared, lock, Env>>

\* loader_lock.acquire()
ExistsAcquire(t) ==
    /\ pc[t] = "ex_acq" /\ lock = "free"
    /\ lock' = t
    /\ Goto(t, "ex_look")
    /\ solo' = Alone(t)
    /\ UNCHANGED <<Files, Shared, Env>>

\* the file exists reads when the cache is unset
LoaderPathToCheck == IF newf.ex THEN newf ELSE live

\* the try block: fill the cache when it is unset, then scan it
ExistsLookup(t) ==
    /\ pc[t] = "ex_look"
    /\ loaders.set \/ LoaderPathToCheck.ex
    /\ loaders' = IF loaders.set THEN loaders ELSE UpdateLoaders(LoaderPathToCheck.ents)
    /\ GotoWith(t, "ex_rel", [loc[t] EXCEPT !.found = AnyMatch(loc[t].name, loaders'.names)])
    /\ solo' = Alone(t)
    /\ UNCHANGED <<Files, swap_queued, lock, Env>>

\* zipfile.ZipFile(loader_path_to_check, 'r') raises
ExistsLookupFail(t) ==
    /\ pc[t] = "ex_look"
    /\ ~loaders.set
    /\ faultsLeft > 0
    /\ faultsLeft' = faultsLeft - 1
    /\ GotoWith(t, "ex_rel", [loc[t] EXCEPT !.exc = TRUE])
    /\ solo' = Alone(t)
    /\ UNCHANGED <<Files, Shared, lock, timers, hostReq, opsLeft>>

\* finally: loader_lock.release(); return found
ExistsRelease(t) ==
    /\ pc[t] = "ex_rel"
    /\ lock' = "free"
    /\ Return(t, "exists",
              IF loc[t].exc THEN "exc" ELSE IF loc[t].found THEN "true" ELSE "false",
              loc[t].rel + 1)
    /\ solo' = Alone(t)
    /\ UNCHANGED <<Files, Shared, Env>>

\* ------------------------------------------------------------------ add
\* the add or remove of thread t starts to run alone
Begin(t, op) ==
    [t |-> t, op |-> op, name |-> loc[t].name, prio |-> loc[t].prio, done |-> FALSE,
     reps |-> IF solo.t = t /\ solo.op = op /\ solo.name = loc[t].name /\ solo.done
                THEN solo.reps + 1 ELSE 1]

\* the add or remove that runs alone has returned normally
Finish(t) == IF solo.t = t THEN [solo EXCEPT !.done = TRUE] ELSE NoSolo

\* loader_lock.acquire()
AddAcquire(t) ==
    /\ pc[t] = "add_acq" /\ lock = "free"
    /\ lock' = t
    /\ Goto(t, "add_write")
    /\ solo' = Begin(t, "add")
    /\ UNCHANGED <<Files, Shared, Env>>

\* mutant of AddTargetIsNew: add always writes into the live archive
AddTargetAlwaysLive == FALSE

\* package_to_update is the staged file while a swap is queued
AddTargetIsNew == swap_queued

\* choose the target, append or create, write the entry, refresh the cache
AddWrite(t) ==
    LET target == IF AddTargetIsNew THEN newf ELSE live
        mode == IF target.ex THEN "a" ELSE "w"
        base == IF mode = "w" THEN <<Entry(MetaName, MetaData)>> ELSE target.ents
        ents == Append(base, Entry(LoaderFilename(loc[t].prio, loc[t].name),
                                   LoaderCode(loc[t].name, loc[t].code)))
    IN  /\ pc[t] = "add_write"
        /\ IF AddTargetIsNew
             THEN newf' = ZipOf(ents) /\ UNCHANGED live
             ELSE live' = ZipOf(ents) /\ UNCHANGED newf
        /\ loaders' = UpdateLoaders(ents)
        /\ GotoWith(t, "add_rel", [loc[t] EXCEPT !.created = (mode = "w"),
                                                 !.staged = AddTargetIsNew])
        /\ solo' = Alone(t)
        /\ UNCHANGED <<inter, swap_queued, lock, Env>>

\* zipfile.ZipFile(package_to_update, mode) raises
AddWriteFail(t) ==
    /\ pc[t] = "add_write"
    /\ faultsLeft > 0
    /\ faultsLeft' = faultsLeft - 1
    /\ GotoWith(t, "add_rel", [loc[t] EXCEPT !.exc = TRUE])
    /\ solo' = Alone(t)
    /\ UNCHANGED <<Files, Shared, lock, timers, hostReq, opsLeft>>

\* finally: loader_lock.release()
AddRelease(t) ==
    /\ pc[t] = "add_rel"
    /\ lock' = "free"
    /\ IF loc[t].exc
         THEN Return(t, "add", "exc", loc[t].rel + 1)
         ELSE GotoWith(t, "add_chk", [loc[t] EXCEPT !.rel = @ + 1])
    /\ solo' = Alone(t)
    /\ UNCHANGED <<Files, Shared, Env>>

\* if not just_created_loader and not non_local['swap_queued']
AddCheck(t) ==
    /\ pc[t] = "add_chk"
    /\ IF ~loc[t].created /\ ~swap_queued
         THEN Goto(t, "add_exec") /\ solo' = Alone(t)
         ELSE Return(t, "add", "ok", loc[t].rel) /\ solo' = Finish(t)
    /\ UNCHANGED <<Files, Shared, lock, Env>>

\* zipimport.zipimporter(loader_package_path).load_module(loader_filename[0:-3])
AddExec(t) ==
    LET fn == LoaderFilename(loc[t].prio, loc[t].name)
        there == live.ex /\ \E i \in 1..Len(live.ents) : live.ents[i].fn = fn
    IN  /\ pc[t] = "add_exec"
        /\ Return(t, "add", IF there THEN "executed" ELSE "exc", loc[t].rel)
        /\ solo' = IF there THEN Finish(t) ELSE Alone(t)
        /\ UNCHANGED <<Files, Shared, lock, Env>>

\* --------------------------------------------------------------- remove
\* if not path.exists(loader_package_path): return
RemoveCheck(t) ==
    /\ pc[t] = "rm_chk"
    /\ IF live.ex
         THEN Goto(t, "rm_acq") /\ solo' = Alone(t)
         ELSE Return(t, "remove", "ok", 0) /\ solo' = [Begin(t, "remove") EXCEPT !.done = TRUE]
    /\ UNCHANGED <<Files, Shared, lock, Env>>

\* loader_lock.acquire()
RemoveAcquire(t) ==
    /\ pc[t] = "rm_acq" /\ lock = "free"
    /\ lock' = t
    /\ Goto(t, "rm_rewrite")
    /\ solo' = Begin(t, "remove")
    /\ UNCHANGED <<Files, Shared, Env>>

\* the source of the rewrite is the staged file when there is one
RewriteFromNew == newf.ex

\* mutant of RemoveRewrite: the cache is not refreshed from the copy
RemoveRewriteStaleCache(t) ==
    LET src == IF RewriteFromNew THEN newf ELSE live
        kept == CopyKept(loc[t].name, src.ents)
    IN  /\ pc[t] = "rm_rewrite"
        /\ src.ex
        /\ newf' = ZipOf(kept)
        /\ inter' = NoFile
        /\ GotoWith(t, "rm_test", [loc[t] EXCEPT
               !.removed = AnyMatch(loc[t].name, Namelist(src.ents))])
        /\ solo' = Alone(t)
        /\ UNCHANGED <<live, loaders, swap_queued, lock, Env>>

\* the try block and its finally, no error: the staged file (moved to the
\* intermediate path) or the live archive is copied without the matching
\* entries to the staged path, the cache is refreshed from the copy and the
\* intermediate file is deleted
RemoveRewrite(t) ==
    LET src == IF RewriteFromNew THEN newf ELSE live
        kept == CopyKept(loc[t].name, src.ents)
    IN  /\ pc[t] = "rm_rewrite"
        /\ src.ex
        /\ newf' = ZipOf(kept)
        /\ inter' = NoFile
        /\ loaders' = UpdateLoaders(kept)
        /\ GotoWith(t, "rm_test", [loc[t] EXCEPT
               !.removed = AnyMatch(loc[t].name, Namelist(src.ents))])
        /\ solo' = Alone(t)
        /\ UNCHANGED <<live, swap_queued, lock, Env>>

FailPoints == {"rename", "open_src", "open_dst", "copy"}

\* an error inside the try block: the finally closes what was opened (and
\* itself stops at the first handle that was never bound), the exception
\* leaves remove, and nothing releases loader_lock
RemoveRewriteFail(t, point) ==
    LET src == IF RewriteFromNew THEN newf ELSE live
        kept == CopyKept(loc[t].name, src.ents)
    IN  /\ pc[t] = "rm_rewrite"
        /\ faultsLeft > 0
        /\ faultsLeft' = faultsLeft - 1
        /\ \/ /\ point = "rename"
              /\ RewriteFromNew
              /\ inter' = NoFile
              /\ UNCHANGED newf
           \/ /\ point \in {"open_src", "open_dst"}
              /\ IF RewriteFromNew
                   THEN inter' = newf /\ newf' = NoFile
                   ELSE UNCHANGED <<inter, newf>>
           \/ /\ point = "copy"
              /\ \E k \in 0..(Len(kept) - 1) : newf' = ZipOf(SubSeq(kept, 1, k))
              /\ inter' = NoFile
        /\ Return(t, "remove", "exc", loc[t].rel)
        /\ solo' = Alone(t)
        /\ UNCHANGED <<live, Shared, lock, timers, hostReq, opsLeft>>

\* mutant of RemoveTest: the unchanged copy is not deleted on the no-op path
RemoveTestLeavesStaged(t) ==
    /\ pc[t] = "rm_test"
    /\ IF ~loc[t].removed /\ ~swap_queued
         THEN /\ lock' = "free"
              /\ Return(t, "remove", "ok", loc[t].rel + 1)
              /\ solo' = Finish(t)
         ELSE /\ Goto(t, "rm_disable")
              /\ solo' = Alone(t)
              /\ UNCHANGED lock
    /\ UNCHANGED <<Files, Shared, Env>>

\* if not removed and not non_local['swap_queued']: discard the copy,
\* release the lock and return
RemoveTest(t) ==
    /\ pc[t] = "rm_test"
    /\ IF ~loc[t].removed /\ ~swap_queued
         THEN /\ newf' = NoFile
              /\ lock' = "free"
              /\ Return(t, "remove", "ok", loc[t].rel + 1)
              /\ solo' = Finish(t)
         ELSE /\ Goto(t, "rm_disable")
              /\ solo' = Alone(t)
              /\ UNCHANGED <<newf, lock>>
    /\ UNCHANGED <<live, inter, Shared, Env>>

\* mutant of RemoveDisable: the host is not asked to disable the package
RemoveDisableSkipped(t) ==
    /\ pc[t] = "rm_disable"
    /\ Goto(t, "rm_sched")
    /\ solo' = Alone(t)
    /\ UNCHANGED <<Files, Shared, lock, Env>>

\* PackageDisabler().disable_packages(loader_package_name, 'loader')
RemoveDisable(t) ==
    /\ pc[t] = "rm_disable"
    /\ hostReq' = "disable"
    /\ Goto(t, "rm_sched")
    /\ solo' = Alone(t)
    /\ UNCHANGED <<Files, Shared, lock, timers, opsLeft, faultsLeft>>

\* mutant of RemoveSchedule: do_swap is scheduled whatever the flag says
RemoveScheduleAlways(t) ==
    /\ pc[t] = "rm_sched"
    /\ timers' = [timers EXCEPT !.do_swap = @ + 1]
    /\ swap_queued' = TRUE
    /\ Goto(t, "rm_rel")
    /\ solo' = Alone(t)
    /\ UNCHANGED <<Files, loaders, lock, hostReq, opsLeft, faultsLeft>>

\* if not non_local['swap_queued']: sublime.set_timeout(do_swap, 700) and
\* set the flag
RemoveSchedule(t) ==
    /\ pc[t] = "rm_sched"
    /\ IF ~swap_queued
         THEN /\ timers' = [timers EXCEPT !.do_swap = @ + 1]
              /\ swap_queued' = TRUE
         ELSE UNCHANGED <<timers, swap_queued>>
    /\ Goto(t, "rm_rel")
    /\ solo' = Alone(t)
    /\ UNCHANGED <<Files, loaders, lock, hostReq, opsLeft, faultsLeft>>

\* mutant of RemoveRelease: remove returns without the final release
RemoveReturnNoRelease(t) ==
    /\ pc[t] = "rm_rel"
    /\ Return(t, "remove", "ok", loc[t].rel)
    /\ solo' = Finish(t)
    /\ UNCHANGED <<Files, Shared, lock, Env>>

\* the last line: loader_lock.release()
RemoveRelease(t) ==
    /\ pc[t] = "rm_rel"
    /\ lock' = "free"
    /\ Return(t, "remove", "ok", loc[t].rel + 1)
    /\ solo' = Finish(t)
    /\ UNCHANGED <<Files, Shared, Env>>

\* ------------------------------------------- deferred callbacks (main)
\* the host runs the scheduled do_swap on its main thread
RunDoSwap ==
    /\ pc[Main] = "idle" /\ timers.do_swap > 0
    /\ timers' = [timers EXCEPT !.do_swap = @ - 1]
    /\ Goto(Main, "sw_acq")
    /\ solo' = NoSolo
    /\ UNCHANGED <<Files, Shared, lock, hostReq, opsLeft, faultsLeft>>

\* do_swap: loader_lock.acquire()
DoSwapAcquire ==
    /\ pc[Main] = "sw_acq" /\ lock = "free"
    /\ lock' = SwapCycle
    /\ Goto(Main, "sw_remove")
    /\ solo' = NoSolo
    /\ UNCHANGED <<Files, Shared, Env>>

\* do_swap: os.remove(loader_package_path)
DoSwapRemove ==
    /\ pc[Main] = "sw_remove"
    /\ live.ex
    /\ live' = NoFile
    /\ Goto(Main, "sw_rename")
    /\ solo' = NoSolo
    /\ UNCHANGED <<newf, inter, Shared, lock, Env>>

\* mutant of DoSwapRename: the staged file is copied, not moved
DoSwapCopy ==
    /\ pc[Main] = "sw_rename"
    /\ newf.ex
    /\ live' = newf
    /\ Goto(Main, "sw_sched")
    /\ solo' = NoSolo
    /\ UNCHANGED <<newf, inter, Shared, lock, Env>>

\* do_swap: os.rename(new_loader_package_path, loader_package_path)
DoSwapRename ==
    /\ pc[Main] = "sw_rename"
    /\ newf.ex
    /\ live' = newf
    /\ newf' = NoFile
    /\ Goto(Main, "sw_sched")
    /\ solo' = NoSolo
    /\ UNCHANGED <<inter, Shared, lock, Env>>

\* os.remove or os.rename raises inside do_swap: the exception ends the
\* callback, do_reenable is never scheduled and the lock stays acquired
DoSwapFail ==
    /\ pc[Main] \in {"sw_remove", "sw_rename"}
    /\ faultsLeft > 0
    /\ faultsLeft' = faultsLeft - 1
    /\ Goto(Main, "idle")
    /\ solo' = NoSolo
    /\ UNCHANGED <<Files, Shared, lock, timers, hostReq, opsLeft>>

\* mutant of DoSwapSchedule: do_swap releases the lock before it returns
DoSwapScheduleAndRelease ==
    /\ pc[Main] = "sw_sched"
    /\ timers' = [timers EXCEPT !.do_reenable = @ + 1]
    /\ lock' = "free"
    /\ Goto(Main, "idle")
    /\ solo' = NoSolo
    /\ UNCHANGED <<Files, Shared, hostReq, opsLeft, faultsLeft>>

\* do_swap: sublime.set_timeout(do_reenable, 10)
DoSwapSchedule ==
    /\ pc[Main] = "sw_sched"
    /\ timers' = [timers EXCEPT !.do_reenable = @ + 1]
    /\ Goto(Main, "idle")
    /\ solo' = NoSolo
    /\ UNCHANGED <<Files, Shared, lock, hostReq, opsLeft, faultsLeft>>

\* the host runs the scheduled do_reenable on its main thread:
\* disabler.reenable_package(loader_package_name, 'loader')
DoReenable ==
    /\ pc[Main] = "idle" /\ timers.do_reenable > 0
    /\ timers' = [timers EXCEPT !.do_reenable = @ - 1]
    /\ hostReq' = "reenable"
    /\ Goto(Main, "re_clear")
    /\ solo' = NoSolo
    /\ UNCHANGED <<Files, Shared, lock, opsLeft, faultsLeft>>

\* mutant of DoReenableClear: the flag is not cleared
DoReenableKeepsFlag ==
    /\ pc[Main] = "re_clear"
    /\ lock' = "free"
    /\ Goto(Main, "idle")
    /\ solo' = NoSolo
    /\ UNCHANGED <<Files, Shared, Env>>

\* do_reenable: non_local['swap_queued'] = False; loader_lock.release()
DoReenableClear ==
    /\ pc[Main] = "re_clear"
    /\ swap_queued' = FALSE
    /\ lock' = "free"
    /\ Goto(Main, "idle")
    /\ solo' = NoSolo
    /\ UNCHANGED <<Files, loaders, Env>>

\* ------------------------------------------------------- specifications
Calls(t) ==
    \/ CallIsSwapping(t)
    \/ \E n \in Names : CallExists(t, n)
    \/ \E n \in Names, p \in Priorities, c \in Codes : CallAdd(t, p, n, c)
    \/ \E n \in Names : CallRemove(t, n)

Steps(t) ==
    \/ IsSwappingAcquire(t) \/ IsSwappingRead(t) \/ IsSwappingRelease(t)
    \/ ExistsCheck(t) \/ ExistsAcquire(t) \/ ExistsLookup(t) \/ ExistsRelease(t)
    \/ AddAcquire(t) \/ AddWrite(t) \/ AddRelease(t) \/ AddCheck(t) \/ AddExec(t)
    \/ RemoveCheck(t) \/ RemoveAcquire(t) \/ RemoveRewrite(t) \/ RemoveTest(t)
    \/ RemoveDisable(t) \/ RemoveSchedule(t) \/ RemoveRelease(t)

Callbacks ==
    \/ RunDoSwap \/ DoSwapAcquire \/ DoSwapRemove \/ DoSwapRename
    \/ DoSwapSchedule \/ DoReenable \/ DoReenableClear

Faults(t) ==
    \/ ExistsLookupFail(t) \/ AddWriteFail(t)
    \/ \E point \in FailPoints : RemoveRewriteFail(t, point)

\* calls come from the worker threads; the main thread runs the callbacks
NextOk ==
    \/ \E t \in Workers : Calls(t)
    \/ \E t \in Workers : Steps(t)
    \/ Callbacks

NextFault ==
    \/ \E t \in Workers : Faults(t)
    \/ DoSwapFail

Next == NextOk \/ NextFault

\* every behaviour, filesystem errors included
Spec == Init /\ [][Next]_vars

\* the behaviours without filesystem errors
SpecOk == Init /\ [][NextOk]_vars

\* without filesystem errors, every thread that can take a step eventually
\* takes one and the host eventually runs the callbacks it was handed
SpecFair ==
    /\ InitFair /\ [][NextOk]_vars
    /\ \A t \in Workers : WF_vars(Steps(t))
    /\ WF_vars(Callbacks)

\* ------------------------------------------ calls from the main thread
\* the threads that make calls when plugin code on the host's main thread
\* calls the module as well
MainCallers == {Main, "t1"}

InitMain == Start(MaxMainOps)

\* a callback starts only when the main thread is idle: a call made on the
\* main thread and the callbacks exclude each other
NextMain ==
    \/ \E t \in MainCallers : Calls(t)
    \/ \E t \in MainCallers : Steps(t)
    \/ Callbacks

\* without filesystem errors, every thread that can take a step eventually
\* takes one and the host eventually runs a callback that can run
SpecMain ==
    /\ InitMain /\ [][NextMain]_vars
    /\ \A t \in MainCallers : WF_vars(Steps(t))
    /\ WF_vars(Callbacks)

\* ---------------------------------------- removals by name (one thread)
\* dependency names that look alike: a prefix of another, a metacharacter
RegexNames == {<<"a">>, <<"b">>, <<"a", "b">>, <<".">>}

\* entries an archive may hold: written by add (priority-name.py, also with
\* a priority that is not two digits) or compiled (.pyc)
RegexEntries ==
    <<Entry(LoaderFilename(<<"0", "1">>, <<"a">>), LoaderCode(<<"a">>, "")),
      Entry(LoaderFilename(<<"1", "0">>, <<"a">>) \o <<"c">>, LoaderCode(<<"a">>, "")),
      Entry(LoaderFilename(<<"1">>, <<"a">>), LoaderCode(<<"a">>, "")),
      Entry(LoaderFilename(<<"0", "1">>, <<"a", "b">>), LoaderCode(<<"a", "b">>, "")),
      Entry(LoaderFilename(<<"0", "1">>, <<".">>), LoaderCode(<<".">>, "")),
      Entry(LoaderFilename(<<"5", "0">>, <<"b">>), LoaderCode(<<"b">>, ""))>>

\* the entries of RegexEntries whose index is in S, from index i on, in order
RECURSIVE PickEntries(_, _)
PickEntries(S, i) ==
    IF i > Len(RegexEntries) THEN << >>
    ELSE (IF i \in S THEN <<RegexEntries[i]>> ELSE << >>) \o PickEntries(S, i + 1)

\* the archive holds the metadata entry and any of those entries
InitRegex ==
    /\ \E S \in SUBSET (1..Len(RegexEntries)) :
          live = ZipOf(<<Entry(MetaName, MetaData)>> \o PickEntries(S, 1))
    /\ newf = NoFile
    /\ inter = NoFile
    /\ loaders = NoLoaders
    /\ swap_queued = FALSE
    /\ lock = "free"
    /\ pc = [t \in Threads |-> "idle"]
    /\ loc = [t \in Threads |-> Loc0]
    /\ ret = Ret0
    /\ timers = [do_swap |-> 0, do_reenable |-> 0]
    /\ hostReq = "none"
    /\ opsLeft = MaxRegexOps
    /\ faultsLeft = 0
    /\ solo = NoSolo
    /\ orig = live
    /\ hist = [removed |-> {}, added |-> FALSE]

RemoveSteps(t) ==
    \/ RemoveCheck(t) \/ RemoveAcquire(t) \/ RemoveRewrite(t) \/ RemoveTest(t)
    \/ RemoveDisable(t) \/ RemoveSchedule(t) \/ RemoveRelease(t)

NextRegex ==
    \/ \E n \in RegexNames : CallRemove("t1", n)
    \/ RemoveSteps("t1")
    \/ Callbacks

\* one thread removes names from such an archive, no filesystem error
SpecRegex == InitRegex /\ [][NextRegex]_vars

\* ===================================================================
\* Properties
\* ===================================================================
TwoDigits(p) == Len(p) = 2 /\ p[1] \in Digits /\ p[2] \in Digits

\* fn is the entry name of dependency n: two digits, hyphen, n, .py or .pyc
EntryOf(n, fn) ==
    \E d1 \in Digits, d2 \in Digits :
        fn \in {<<d1, d2, "-">> \o n \o <<".", "p", "y">>,
                <<d1, d2, "-">> \o n \o <<".", "p", "y", "c">>}

EntrySet(f) == {f.ents[i] : i \in 1..Len(f.ents)}

SwapRunning == pc[Main] \in {"sw_acq", "sw_remove", "sw_rename", "sw_sched", "re_clear"}

\* nothing is running and no swap is pending
Idle ==
    /\ ~swap_queued
    /\ lock = "free"
    /\ \A t \in Threads : pc[t] = "idle"
    /\ timers.do_swap = 0 /\ timers.do_reenable = 0

\* the thread whose exists just returned has run alone since its add or
\* remove of the same name acquired the lock (or returned at once), and
\* that add or remove returned normally
ExistsRightAfter(op) ==
    /\ ret.op = "exists"
    /\ solo.t = ret.t /\ solo.op = op /\ solo.done /\ solo.name = ret.name

\* C1: when add(p, n) with a two-digit p has returned and the same thread
\* calls exists(n) with no step of any other thread or callback since the
\* add acquired the lock, exists returns true; when remove(n) has returned
\* and exists(n) follows in the same way, exists returns false. This holds
\* whether or not a swap is pending and whether or not errors happened before.
C1_ExistsAfterAddRemove ==
    /\ (ExistsRightAfter("add") /\ TwoDigits(solo.prio)) => ret.val = "true"
    /\ ExistsRightAfter("remove") => ret.val = "false"

\* exists answered true right after an add made while a swap was pending
C1_Witness ==
    /\ ExistsRightAfter("add") /\ TwoDigits(solo.prio)
    /\ swap_queued /\ newf.ex
    /\ ret.val = "true"

\* C2 (as claimed): removes return without error, and whenever the manager
\* is idle and no add was ever called, the live archive holds exactly the
\* original entries minus those of the names whose remove has returned,
\* the metadata entry included.
C2_ConcurrentRemovals ==
    /\ ret.op = "remove" => ret.val = "ok"
    /\ (Idle /\ orig.ex /\ ~hist.added) =>
          /\ live.ex
          /\ EntrySet(live) =
                {e \in EntrySet(orig) : ~\E n \in hist.removed : EntryOf(n, e.fn)}
          /\ Entry(MetaName, MetaData) \in EntrySet(live)

\* the number of swap cycles under way: do_swap scheduled, do_swap running,
\* do_reenable scheduled or do_reenable running
InFlight ==
    timers.do_swap + (IF SwapRunning THEN 1 ELSE 0) + timers.do_reenable

\* C3: at most one do_swap is scheduled and not yet run, at most one swap
\* cycle is under way, and a scheduled do_swap means the flag is set (the
\* staged replacement has one path, new_loader_package_path, which every
\* remove writes). Holds with filesystem errors too.
C3_OneSwapInFlight ==
    /\ timers.do_swap <= 1
    /\ InFlight <= 1
    /\ (timers.do_swap = 1 => swap_queued)

\* a second remove deleted an entry while the first one's swap was still
\* scheduled: one do_swap is scheduled and one staged file holds both removals
C3_Witness ==
    /\ ret.op = "remove" /\ ret.val = "ok"
    /\ hist.removed = {<<"a">>, <<"b">>} /\ ~hist.added /\ orig.ex
    /\ swap_queued /\ timers.do_swap = 1
    /\ newf = ZipOf(<<Entry(MetaName, MetaData)>>)
    /\ live = orig

\* C4 (as claimed): a remove that returns while a swap is pending has folded
\* its removal into the staged replacement, which then exists and holds no
\* entry of that name; and whenever the manager is idle again exactly one
\* archive exists, the live one, with no staged or intermediate file, and
\* (no add having been called) it holds every original entry except those of
\* the removed names.
C4_RemovalsFoldIntoStaged ==
    /\ (ret.op = "remove" /\ ret.val = "ok" /\ swap_queued) =>
          /\ newf.ex
          /\ ~\E e \in EntrySet(newf) : EntryOf(ret.name, e.fn)
    /\ (Idle /\ orig.ex) => (live.ex /\ ~newf.ex /\ ~inter.ex)
    /\ (Idle /\ orig.ex /\ ~hist.added) =>
          \A e \in EntrySet(orig) :
              e \in EntrySet(live) <=> ~\E n \in hist.removed : EntryOf(n, e.fn)

\* the archive that holds the committed entries: the staged replacement
\* when there is one, the live archive otherwise
Committed == IF newf.ex THEN newf ELSE live

\* the entry the add of thread t writes
AddedEntry(t) ==
    Entry(LoaderFilename(loc[t].prio, loc[t].name), LoaderCode(loc[t].name, loc[t].code))

\* C5: without filesystem errors, add writes its entry into the staged
\* replacement and leaves the live archive alone while the swap flag is
\* true, and writes it into the live archive while the flag is false; no
\* step drops an entry from the committed archive except the rewrite of a
\* remove of that entry's name, the swap included; and whenever the manager
\* is idle the committed archive is the live one.
C5_AddsSurviveSwap ==
    [][ /\ \A t \in Threads :
              (pc[t] = "add_write" /\ pc'[t] = "add_rel") =>
                  IF swap_queued
                    THEN AddedEntry(t) \in EntrySet(newf') /\ live' = live
                    ELSE AddedEntry(t) \in EntrySet(live') /\ newf' = newf
        /\ \A e \in EntrySet(Committed) :
              \/ e \in EntrySet(Committed')
              \/ \E t \in Threads : pc[t] = "rm_rewrite" /\ EntryOf(loc[t].name, e.fn)
        /\ Idle' => ~newf'.ex
      ]_vars

\* an add has just written its entry into the staged replacement, not into
\* the live archive, while a swap is pending
C5_Witness ==
    \E t \in Threads :
        /\ pc[t] = "add_rel" /\ ~loc[t].exc /\ loc[t].staged
        /\ swap_queued
        /\ AddedEntry(t) \in EntrySet(newf)
        /\ AddedEntry(t) \notin EntrySet(live)

C7_LockReleasedOnEveryExit ==
    ret.t # "nobody" => lock # ret.t

\* C8 (as claimed): a swap that is pending is under way: do_swap is
\* scheduled (again, after a failure) or running, or do_reenable is scheduled.
C8_FailedSwapIsRetried ==
    swap_queued => InFlight > 0

\* C9: without filesystem errors, with calls from worker threads and fair
\* scheduling: is_swapping returns true exactly when the flag is set as it
\* returns; a set flag is eventually cleared; the rename step makes the live
\* archive the staged replacement, which is then gone, the live archive does
\* not change between that step and the re-enable step, and the re-enable
\* step clears the flag after asking the host to re-enable the package.
C9_SwapCompletes ==
    /\ [](ret.op = "is_swapping" => (ret.val = "true" <=> swap_queued))
    /\ (swap_queued ~> ~swap_queued)
    /\ [][ /\ (pc[Main] = "sw_rename" /\ pc'[Main] # "sw_rename") =>
                  (live' = newf /\ newf.ex /\ ~newf'.ex)
           /\ (pc[Main] = "sw_sched" \/ timers.do_reenable > 0) => live' = live
           /\ (swap_queued /\ ~swap_queued') =>
                  (pc[Main] = "re_clear" /\ hostReq = "reenable" /\ lock' = "free")
         ]_vars

\* an is_swapping call made after the cycle finished has returned false, and
\* the live archive is the rewritten one
C9_Witness ==
    /\ ret.op = "is_swapping" /\ ret.val = "false"
    /\ ~swap_queued /\ hostReq = "reenable" /\ InFlight = 0
    /\ hist.removed = {<<"a">>} /\ ~hist.added
    /\ live = ZipOf(CopyKept(<<"a">>, orig.ents)) /\ live # orig

\* remove holds the lock, no swap is pending and the archive it reads holds
\* no entry of the name
NothingToRemove(t) ==
    /\ pc[t] = "rm_rewrite"
    /\ ~swap_queued
    /\ ~\E e \in EntrySet(Committed) : EntryOf(loc[t].name, e.fn)

\* C10: without filesystem errors, a remove(n) that finds no entry of n and
\* no pending swap is a no-op, the first time and every time after: its
\* rewrite removes nothing and its return raises nothing, and in between
\* the live archive, the flag, the scheduled callbacks and the host are left
\* untouched; when it returns the lock is free and neither the staged nor
\* the intermediate file exists, so that the next call finds the same state.
C10_RemoveAbsentIsNoop ==
    [][ \A t \in Threads :
          /\ NothingToRemove(t) =>
                /\ live' = live /\ ~swap_queued' /\ timers' = timers /\ hostReq' = hostReq
                /\ pc'[t] \in {"rm_rewrite", "rm_test"}
                /\ pc'[t] = "rm_test" => ~loc'[t].removed
          /\ (pc[t] = "rm_test" /\ ~loc[t].removed /\ ~swap_queued) =>
                /\ live' = live /\ ~swap_queued' /\ timers' = timers /\ hostReq' = hostReq
                /\ \/ pc'[t] = "rm_test" /\ lock' = t
                   \/ /\ pc'[t] = "idle" /\ ret'.t = t /\ ret'.val = "ok"
                      /\ lock' = "free" /\ ~newf'.ex /\ ~inter'.ex
      ]_vars

\* the second of two removes of an absent name in a row has just returned
\* and everything is as it was before the first
C10_Witness ==
    /\ ret.op = "remove" /\ ret.val = "ok" /\ ret.rel = 1
    /\ solo.t = ret.t /\ solo.op = "remove" /\ solo.reps = 2 /\ solo.done
    /\ live.ex /\ ~\E e \in EntrySet(live) : EntryOf(ret.name, e.fn)
    /\ ~swap_queued /\ hostReq = "none" /\ InFlight = 0
    /\ ~newf.ex /\ ~inter.ex /\ lock = "free"

\* C11: the rewrite of remove(n1) drops from the archive it reads exactly
\* the entries named two digits, hyphen, n1, .py or .pyc: every other entry,
\* the metadata entry and every entry named for another dependency n2 with
\* any two-digit priority included, is in the rewritten archive with the
\* same payload, and no entry is added.
C11_RemoveOnlyNamedEntries ==
    [][ \A t \in Threads :
          (pc[t] = "rm_rewrite" /\ pc'[t] = "rm_test") =>
              LET src == Committed
                  n1 == loc[t].name
              IN  /\ newf'.ex
                  /\ EntrySet(newf') \subseteq EntrySet(src)
                  /\ EntrySet(src) \ EntrySet(newf') =
                        {e \in EntrySet(src) : EntryOf(n1, e.fn)}
                  /\ Entry(MetaName, MetaData) \in EntrySet(src) =>
                        Entry(MetaName, MetaData) \in EntrySet(newf')
                  /\ \A n2 \in RegexNames \ {n1} : \A e \in EntrySet(src) :
                        EntryOf(n2, e.fn) => e \in EntrySet(newf')
                  /\ loc'[t].removed <=> \E e \in EntrySet(src) : EntryOf(n1, e.fn)
      ]_vars

\* remove('.') has rewritten an archive that held every entry: only the
\* entry of '.' is gone, those of 'a', 'ab' and 'b' and the metadata stay
C11_Witness ==
    /\ pc["t1"] = "rm_test" /\ loc["t1"].name = <<".">> /\ loc["t1"].removed
    /\ live = ZipOf(<<Entry(MetaName, MetaData)>> \o RegexEntries)
    /\ newf = ZipOf(<<Entry(MetaName, MetaData)>>
                      \o SubSeq(RegexEntries, 1, 4) \o SubSeq(RegexEntries, 6, 6))

\* C12: whenever the lock is free, the cache is unset or is the list of
\* entry names of the committed archive (the staged replacement when it
\* exists, the live archive otherwise); and the answer exists computes
\* under the lock is the one a fresh read of that archive gives. Holds with
\* filesystem errors too.
C12_CacheCoherent ==
    /\ lock = "free" =>
          (~loaders.set \/ loaders.names = Namelist(Committed.ents))
    /\ \A t \in Threads :
          (pc[t] = "ex_rel" /\ ~loc[t].exc) =>
              (loc[t].found <=> AnyMatch(loc[t].name, Namelist(Committed.ents)))

\* an exists answered false from the cache for a name whose entry a remove
\* has taken out of the staged replacement while the live archive, not yet
\* swapped, still holds it
C12_Witness ==
    /\ ret.op = "exists" /\ ret.val = "false" /\ ret.name \in hist.removed
    /\ lock = "free" /\ loaders.set /\ swap_queued /\ newf.ex
    /\ loaders.names = Namelist(newf.ents)
    /\ \E e \in EntrySet(live) : EntryOf(ret.name, e.fn)

\* remove has acquired the lock and has not returned
RemoveHolding(t) == pc[t] \in {"rm_rewrite", "rm_test", "rm_disable", "rm_sched", "rm_rel"}

\* C13: from its acquire on, a remove holds the lock and has not released
\* it; and when it returns without error, by the no-op branch, after
\* scheduling a swap or after folding into a pending one, the step that
\* returns releases the lock, which makes exactly one release.
C13_RemoveReleasesOnce ==
    /\ [](\A t \in Threads : RemoveHolding(t) => (lock = t /\ loc[t].rel = 0))
    /\ [][ \A t \in Threads :
              (RemoveHolding(t) /\ pc'[t] = "idle" /\ ret'.val = "ok") =>
                  (lock' = "free" /\ ret'.rel = 1)
          ]_vars

\* the second of two removes of the same name in a row has returned: it
\* matched nothing, and went through the branch that folds into the swap
\* the first one scheduled; it released once and the lock is free
C13_Witness ==
    /\ ret.op = "remove" /\ ret.val = "ok" /\ ret.rel = 1
    /\ solo.t = ret.t /\ solo.op = "remove" /\ solo.reps = 2 /\ solo.done
    /\ swap_queued /\ timers.do_swap = 1 /\ hostReq = "disable"
    /\ lock = "free"

\* C14: a swap cycle goes disable, delete, rename, re-enable, clear: the
\* last request to the host is the disable from do_swap's delete until
\* do_reenable runs; the live archive is deleted only by do_swap and only
\* while the package is disabled; the rename puts the staged replacement at
\* the live path, which is then empty, while the package is disabled; the
\* re-enable is requested only after the rename, with the flag still set;
\* and the flag is cleared only after the re-enable was requested.
C14_SwapCycleOrder ==
    /\ []((pc[Main] \in {"sw_remove", "sw_rename", "sw_sched"} \/ timers.do_reenable > 0)
              => hostReq = "disable")
    /\ [][ /\ (live.ex /\ ~live'.ex) =>
                  (pc[Main] = "sw_remove" /\ hostReq = "disable" /\ hostReq' = "disable")
           /\ (pc[Main] = "sw_rename" /\ pc'[Main] = "sw_sched") =>
                  (~live.ex /\ live' = newf /\ hostReq = "disable" /\ hostReq' = "disable")
           /\ (hostReq # "reenable" /\ hostReq' = "reenable") =>
                  (live.ex /\ ~newf.ex /\ timers.do_reenable > 0 /\ swap_queued /\ swap_queued')
           /\ (swap_queued /\ ~swap_queued') =>
                  (hostReq = "reenable" /\ live.ex /\ ~newf.ex)
         ]_vars

\* two removals were folded into one swap, each with its own disable; the
\* archive was deleted and replaced, the re-enable has been requested and
\* the flag is about to be cleared
C14_Witness ==
    /\ pc[Main] = "re_clear" /\ hostReq = "reenable" /\ swap_queued
    /\ hist.removed = {<<"a">>, <<"b">>} /\ ~hist.added /\ orig.ex
    /\ live = ZipOf(<<Entry(MetaName, MetaData)>>) /\ ~newf.ex

\* C15 (as claimed): when add leaves its test after the release, it goes on
\* to execute the entry exactly when its write under the lock was an append
\* to the existing live archive with no swap pending.
C15_ExecDecisionMatchesWrite ==
    [][ \A t \in Threads :
          (pc[t] = "add_chk" /\ pc'[t] # "add_chk") =>
              (pc'[t] = "add_exec" <=> (~loc[t].created /\ ~loc[t].staged))
      ]_vars

\* the exists or remove that just returned took the 'archive absent' return
\* before the acquire
EarlyReturn == ret.op \in {"exists", "remove"} /\ ret.rel = 0 /\ ret.val # "exc"

\* C16 (as claimed): once the archive has been created (it was there from
\* the start, or it or its staged replacement is on disk), no exists and no
\* remove takes the 'archive absent' return.
C16_NoEarlyReturnOnceCreated ==
    EarlyReturn => ~(orig.ex \/ live.ex \/ newf.ex)

\* the main thread is inside a call of is_swapping, exists, add or remove
MainInCall ==
    pc[Main] \notin {"idle", "sw_acq", "sw_remove", "sw_rename", "sw_sched", "re_clear"}

\* C17 (as claimed): a call made on the main thread returns.
C17_MainCallReturns ==
    MainInCall ~> ~MainInCall

\* C18: without filesystem errors, whenever the lock is free the staged
\* replacement exists exactly when the swap flag is set, and the
\* intermediate file does not exist.
C18_StagedIffQueued ==
    lock = "free" => ((newf.ex <=> swap_queued) /\ ~inter.ex)

\* an add has returned after writing into the staged replacement of a
\* pending swap, itself rewritten by a remove: lock free, flag set, staged
\* file there, no intermediate file
C18_Witness ==
    /\ ret.op = "add" /\ ret.val = "ok"
    /\ hist.removed # {} /\ lock = "free"
    /\ swap_queued /\ newf.ex /\ ~inter.ex
    /\ \E e \in EntrySet(newf) : EntryOf(ret.name, e.fn) /\ e \notin EntrySet(live)

\* C19 (as claimed): whenever the flag is false and the lock is free the
\* last request made to the host is a re-enable, or none was made; and
\* every disable is eventually followed by a re-enable.
C19_DisableThenReenable ==
    /\ []((~swap_queued /\ lock = "free") => hostReq \in {"none", "reenable"})
    /\ (hostReq = "disable" ~> hostReq = "reenable")

\* the next statement of thread t reads or writes the swap flag or the cache
\* (add tests the flag only when it has not just created the archive)
AccessesShared(t) ==
    \/ pc[t] \in {"is_read", "ex_look", "add_write", "rm_rewrite", "rm_test", "rm_sched"}
    \/ (pc[t] = "add_chk" /\ ~loc[t].created)

\* C20 (as claimed): a thread about to read or write the swap flag or the
\* cache holds the lock, and do_reenable clears the flag while the lock is
\* held for the swap.
C20_SharedStateUnderLock ==
    /\ \A t \in Threads : AccessesShared(t) => lock = t
    /\ pc[Main] = "re_clear" => lock = SwapCycle
====
